---- MODULE Spec2Model ----
(***************************************************************************)
(* The Strava "latest activity" batch pipeline (scripts/fetch-strava.mjs,  *)
(* paginated variant): startup credential check, token exchange with       *)
(* refresh-token rotation, paginated discovery of the newest activity with *)
(* a fetchable photo, stats-only fallback, payload writer and the          *)
(* outermost catch handler.                                                *)
(*                                                                         *)
(* One step of the model is the code between two awaits: the request that  *)
(* is issued, the response the upstream service gives, and everything the  *)
(* script does with it up to the next request.                             *)
(*                                                                         *)
(* Further specifications of the module: SpecPure applies the two pure     *)
(* functions pickBestPhotoUrl and buildStats to arguments of their own,    *)
(* SpecTwice runs the script twice against the same upstream answers,      *)
(* SpecLive lets the live handler (src/api/strava-latest.ts) answer a GET  *)
(* after a batch run, SpecCli is the secret-rotation CLI                   *)
(* (scripts/update-gh-secret.mjs), and SpecRotate is the script followed   *)
(* by the CLI, repeated.                                                   *)
(***************************************************************************)
EXTENDS Integers, Sequences, FiniteSets, TLC

(***************************************************************************)
(* Program constants.                                                      *)
(***************************************************************************)
MAX_PAGES == 40
PER_PAGE == 50

(***************************************************************************)
(* Bounds of the model.                                                    *)
(***************************************************************************)
\* longest explicit run of activities that follows the photo-less padding
MaxActs == 2
\* number of distinct values new Date() can take at the moment of a write
MaxTime == 2

(***************************************************************************)
(* JavaScript values.  An optional value (undefined, null, a missing JSON  *)
(* field, an unset environment variable) is <<>>, a present one <<v>>.     *)
(***************************************************************************)
None == <<>>
Some(v) == <<v>>

\* JS truthiness of an optional string: undefined, null and "" are falsy
Truthy(m) == m # None /\ m[1] # ""

\* a || b
Or(a, b) == IF Truthy(a) THEN a ELSE b

\* a ?? b on an optional number
Nullish(m, d) == IF m = None THEN d ELSE m[1]

\* String(n).padStart(2, '0')
padStart2(n) == IF n < 10 THEN "0" \o ToString(n) ELSE ToString(n)

(***************************************************************************)
(* hms: h = floor(t/3600), m = floor((t % 3600)/60), s = round(t % 60);    *)
(* on integer seconds the rounding is the identity.                        *)
(***************************************************************************)
hms(totalSeconds) ==
  LET h == totalSeconds \div 3600
      m == (totalSeconds % 3600) \div 60
      s == totalSeconds % 60
  IN  IF h > 0
        THEN ToString(h) \o ":" \o padStart2(m) \o ":" \o padStart2(s)
        ELSE ToString(m) \o ":" \o padStart2(s)

(***************************************************************************)
(* Number.prototype.toFixed on a non-negative rational num/den with        *)
(* `digits` decimals (1 or 2): the nearest decimal, the larger one on a    *)
(* tie.  The doubles the script computes are the correctly rounded         *)
(* quotients; on the distances (multiples of 500 m) and the times          *)
(* (multiples of 75 s, and one second less) of this model, and on the      *)
(* activities of its feed, the double and the rational round alike.        *)
(***************************************************************************)
toFixed(num, den, digits) ==
  LET scale == IF digits = 1 THEN 10 ELSE 100
      n == (2 * num * scale + den) \div (2 * den)
      frac == n % scale
  IN  ToString(n \div scale) \o "." \o
        (IF digits = 2 THEN padStart2(frac) ELSE ToString(frac))

(***************************************************************************)
(* pickBestPhotoUrl: 2048, then 1200, then 1000, then the generic url.     *)
(* A photo record is [urls |-> optional map size -> optional url,          *)
(* url |-> optional url].                                                  *)
(***************************************************************************)
Sizes == {"2048", "1200", "1000"}
NoUrls == [s \in Sizes |-> None]

\* mutant: the generic url before the sized ones
pickBestPhotoUrlGenericFirst(p) ==
  IF p = None THEN None
  ELSE LET u == IF p[1].urls # None THEN p[1].urls[1] ELSE NoUrls
       IN  Or(p[1].url, Or(u["2048"], Or(u["1200"], Or(u["1000"], None))))

pickBestPhotoUrl(p) ==
  IF p = None THEN None
  ELSE LET u == IF p[1].urls # None THEN p[1].urls[1] ELSE NoUrls
       IN  Or(u["2048"], Or(u["1200"], Or(u["1000"], Or(p[1].url, None))))

(***************************************************************************)
(* buildStats.  distance is in metres, times in seconds.                   *)
(*   pace  = moving / (distance/1000) seconds per km, shown as             *)
(*           floor(pace/60) ":" round(pace % 60)                           *)
(*   speed = (distance/1000) / (moving/3600) = 36*distance/(10*moving)     *)
(***************************************************************************)
\* mutant: the seconds of the pace without padStart
RunStatsUnpadded(distance, moving) ==
  LET num == moving * 1000
      pm == num \div (60 * distance)
      rem == num % (60 * distance)
      ps == (2 * rem + distance) \div (2 * distance)
  IN  [isRun |-> TRUE,
       distance |-> toFixed(distance, 1000, 2) \o " km",
       pace |-> ToString(pm) \o ":" \o ToString(ps) \o "/km",
       duration |-> hms(moving)]

RunStats(distance, moving) ==
  LET num == moving * 1000            \* pace = num / distance
      pm == num \div (60 * distance)
      rem == num % (60 * distance)    \* (pace % 60) = rem / distance
      ps == (2 * rem + distance) \div (2 * distance)
  IN  [isRun |-> TRUE,
       distance |-> toFixed(distance, 1000, 2) \o " km",
       pace |-> ToString(pm) \o ":" \o padStart2(ps) \o "/km",
       duration |-> hms(moving)]

\* mutant: the speed in metres per second
RideStatsMetresPerSecond(distance, moving) ==
  LET kph == IF moving > 0 THEN toFixed(distance, moving, 1)
                           ELSE toFixed(0, 1, 1)
  IN  [isRun |-> FALSE,
       distance |-> toFixed(distance, 1000, 2) \o " km",
       speed |-> kph \o " km/h",
       duration |-> hms(moving)]

RideStats(distance, moving) ==
  LET kph == IF moving > 0 THEN toFixed(36 * distance, 10 * moving, 1)
                           ELSE toFixed(0, 1, 1)
  IN  [isRun |-> FALSE,
       distance |-> toFixed(distance, 1000, 2) \o " km",
       speed |-> kph \o " km/h",
       duration |-> hms(moving)]

\* mutant: the two branches without the test of the distance; a division by
\* zero gives Infinity and NaN
buildStatsAnyDistance(activity) ==
  LET distance == Nullish(activity.distance, 0)
      moving == IF activity.moving_time # None THEN activity.moving_time[1]
                ELSE Nullish(activity.elapsed_time, 0)
      type == Or(activity.sport_type, activity.type)
  IN  IF type \in {Some("Run"), Some("TrailRun")}
        THEN IF distance > 0 THEN RunStats(distance, moving)
             ELSE [isRun |-> TRUE, distance |-> "0.00 km",
                   pace |-> "Infinity:NaN/km", duration |-> hms(moving)]
      ELSE IF type \in {Some("Ride"), Some("VirtualRide")}
        THEN RideStats(distance, moving)
      ELSE [isRun |-> FALSE, duration |-> hms(moving)]

buildStats(activity) ==
  LET distance == Nullish(activity.distance, 0)
      moving == IF activity.moving_time # None THEN activity.moving_time[1]
                ELSE Nullish(activity.elapsed_time, 0)
      type == Or(activity.sport_type, activity.type)
  IN  IF type \in {Some("Run"), Some("TrailRun")} /\ distance > 0
        THEN RunStats(distance, moving)
      ELSE IF type \in {Some("Ride"), Some("VirtualRide")} /\ distance > 0
        THEN RideStats(distance, moving)
      ELSE [isRun |-> FALSE, duration |-> hms(moving)]

(***************************************************************************)
(* The upstream service.  An activity is the record the feed returns for   *)
(* it; the photo and the detail endpoint answer per activity id.  A        *)
(* response is [outcome, json]: outcome "reject" is a transport failure    *)
(* (fetch or the body parser throws), "notok" a non-success status, "ok"   *)
(* a success status whose parsed body is json.                             *)
(***************************************************************************)
Photo(u2048, u1200, u1000, url) ==
  [urls |-> Some(("2048" :> u2048) @@ ("1200" :> u1200) @@ ("1000" :> u1000)),
   url |-> url]

GalleryPhoto ==
  Photo(Some("https://cdn/gallery-2048.jpg"), Some("https://cdn/gallery-1200.jpg"),
        None, Some("https://cdn/gallery.jpg"))
CoverPhoto ==
  Photo(None, None, Some("https://cdn/cover-1000.jpg"), Some("https://cdn/cover.jpg"))
\* a first gallery entry that carries no usable url
BlankPhoto == [urls |-> None, url |-> Some("")]

Ok(json) == [outcome |-> "ok", json |-> Some(json)]
NotOk == [outcome |-> "notok", json |-> None]
Reject == [outcome |-> "reject", json |-> None]

Detail(primary) == [photos |-> Some([primary |-> primary])]

\* photo count 0; both photo endpoints would serve a photo if they were asked
Filler ==
  [a |-> [total_photo_count |-> Some(0), sport_type |-> Some("Run"),
          type |-> Some("Run"), distance |-> Some(10000),
          moving_time |-> Some(3000), elapsed_time |-> Some(3100)],
   photos |-> Ok(<<GalleryPhoto>>),
   detail |-> Ok(Detail(Some(CoverPhoto)))]

\* photo count absent; both photo endpoints would serve a photo
Uncounted ==
  [a |-> [total_photo_count |-> None, sport_type |-> Some("VirtualRide"),
          type |-> Some("Ride"), distance |-> Some(30000),
          moving_time |-> Some(3600), elapsed_time |-> Some(4000)],
   photos |-> Ok(<<GalleryPhoto>>),
   detail |-> Ok(Detail(Some(CoverPhoto)))]

\* the gallery serves the photo
WithGallery ==
  [a |-> [total_photo_count |-> Some(2), sport_type |-> Some("TrailRun"),
          type |-> Some("Run"), distance |-> Some(5000),
          moving_time |-> Some(1500), elapsed_time |-> Some(1560)],
   photos |-> Ok(<<GalleryPhoto, CoverPhoto>>),
   detail |-> Ok(Detail(Some(CoverPhoto)))]

\* the gallery request fails in transport, the detail record has a cover photo
WithCover ==
  [a |-> [total_photo_count |-> Some(1), sport_type |-> None,
          type |-> Some("Ride"), distance |-> Some(20000),
          moving_time |-> Some(3600), elapsed_time |-> Some(3700)],
   photos |-> Reject,
   detail |-> Ok(Detail(Some(CoverPhoto)))]

\* both photo requests fail
Broken ==
  [a |-> [total_photo_count |-> Some(1), sport_type |-> Some("Walk"),
          type |-> Some("Walk"), distance |-> Some(3000),
          moving_time |-> None, elapsed_time |-> Some(2000)],
   photos |-> NotOk,
   detail |-> Reject]

\* both photo requests succeed and neither carries a usable url: the first
\* gallery entry is blank (the second is not), the detail record has no photos
Hollow ==
  [a |-> [total_photo_count |-> Some(3), sport_type |-> Some("Run"),
          type |-> Some("Run"), distance |-> Some(0),
          moving_time |-> Some(75), elapsed_time |-> Some(80)],
   photos |-> Ok(<<BlankPhoto, GalleryPhoto>>),
   detail |-> Ok([photos |-> None])]

\* the gallery is an empty list, the detail record has a cover photo
EmptyGallery ==
  [a |-> [total_photo_count |-> Some(1), sport_type |-> Some("Ride"),
          type |-> Some("Ride"), distance |-> Some(12000),
          moving_time |-> Some(1800), elapsed_time |-> Some(1900)],
   photos |-> Ok(<<>>),
   detail |-> Ok(Detail(Some(CoverPhoto)))]

Kinds == {Uncounted, WithGallery, WithCover, Broken, Hollow, EmptyGallery}

RECURSIVE SeqsUpTo(_, _)
SeqsUpTo(S, n) ==
  IF n = 0 THEN {<<>>}
  ELSE LET shorter == SeqsUpTo(S, n - 1)
       IN  shorter \cup {Append(s, x) : s \in {t \in shorter : Len(t) = n - 1}, x \in S}

\* number of photo-less Filler activities that precede the explicit ones
Pads == {0, PER_PAGE - 1, MAX_PAGES * PER_PAGE - 1, MAX_PAGES * PER_PAGE}

\* the feeds of the model: at most one activity lies past the scan bound
Feeds ==
  {f \in [pad : Pads, acts : SeqsUpTo(Kinds, MaxActs)] :
     f.pad + Len(f.acts) <= MAX_PAGES * PER_PAGE + 1}

Timestamps == 1..MaxTime

\* process.env
Env(id, secret, refresh, athlete) ==
  [STRAVA_CLIENT_ID |-> id, STRAVA_CLIENT_SECRET |-> secret,
   STRAVA_REFRESH_TOKEN |-> refresh, STRAVA_ATHLETE_ID |-> athlete]

Envs ==
  { Env(Some("cid"), Some("sec"), Some("rt0"), Some("777")),
    Env(Some("cid"), Some("sec"), Some("rt0"), None),
    Env(None, Some("sec"), Some("rt0"), None),
    Env(Some("cid"), Some(""), Some("rt0"), None),
    Env(Some("cid"), Some("sec"), None, Some("777")) }

\* bodies of a rejected token exchange
Bodies == {"invalid_grant", "Service Unavailable"}

\* answers of the token endpoint
TokenResponses ==
  {Reject}
  \cup {[outcome |-> "notok", json |-> None, text |-> b] : b \in Bodies}
  \cup {Ok([access_token |-> "at1", refresh_token |-> r]) :
          r \in {None, Some("rt0"), Some("rt1")}}

VARIABLES
  env,        \* process.env of the run
  feed,       \* the upstream feed: [pad, acts], newest first
  pc,         \* where the script is
  access,     \* the bearer token of run()
  page,       \* loop variable of findLatestActivityWithPhoto
  i,          \* position of the candidate `a` in the current page
  found,      \* result of findLatestActivityWithPhoto
  err,        \* the pending rejection of run()
  exitCode,   \* exit status of the process
  files,      \* the two files the script writes
  written,    \* history: every payload writePayload has persisted
  writeFails, \* history: number of writePayload calls that threw
  requests,   \* history: every request issued
  exchange,   \* history: the answer of the token endpoint
  answers,    \* history: the answers of the token and the feed endpoint
  replay,     \* the answers a repeated run is given again, None for any
  arg,        \* the argument a function is applied to
  result,     \* the value it returned
  response,   \* the Response the live handler resolved with
  cli,        \* argv and process.env of the secret-rotation CLI
  store,      \* the secret store: its secrets and the requests it received
  minted      \* history: per token exchange, the refresh token it issued

vars == <<env, feed, pc, access, page, i, found, err, exitCode, files,
          written, writeFails, requests, exchange, answers, replay,
          arg, result, response, cli, store, minted>>

\* what lies outside the state of the batch script; of these, it records
\* only the refresh tokens it is issued
outside == <<replay, arg, result, response, cli, store, minted>>

(***************************************************************************)
(* The feed as the service serves it: activity k (1 = newest) has id k.    *)
(***************************************************************************)
FeedLen == feed.pad + Len(feed.acts)
Entry(k) == IF k <= feed.pad THEN Filler ELSE feed.acts[k - feed.pad]
ActivityAt(k) == ("id" :> k) @@ Entry(k).a

\* GET /activities/{id}/photos?size=2048 and GET /activities/{id}
PhotosOf(id) == Entry(id).photos
DetailOf(id) == Entry(id).detail

\* GET /athlete/activities?per_page=n&page=p
ActivitiesPage(n, p) ==
  LET first == (p - 1) * n
      left == FeedLen - first
      len == IF left <= 0 THEN 0 ELSE IF left < n THEN left ELSE n
  IN  [j \in 1..len |-> ActivityAt(first + j)]

\* answers of the feed endpoint: the page, a body that is no array, a
\* non-success status, a transport failure
Statuses == {429, 500}
FeedResponses(n, p) ==
  {Ok([isArray |-> TRUE, items |-> ActivitiesPage(n, p)]),
   Ok([isArray |-> FALSE, items |-> <<>>]),
   Reject}
  \cup {[outcome |-> "notok", json |-> None, status |-> s, text |-> "Rate Limit Exceeded"] :
          s \in Statuses}

\* the secret store before the CLI has run
NoStore == [secrets |-> <<>>, log |-> <<>>]

(***************************************************************************)
(* Initial state: the module has been loaded, nothing has run yet.         *)
(***************************************************************************)
Init ==
  /\ env \in Envs
  /\ feed \in Feeds
  /\ pc = "start"
  /\ access = None
  /\ page = 1
  /\ i = 0
  /\ found = None
  /\ err = None
  /\ exitCode = None
  /\ files = [payload |-> None, rotated |-> None]
  /\ written = <<>>
  /\ writeFails = 0
  /\ requests = <<>>
  /\ exchange = None
  /\ answers = <<>>
  /\ replay = None
  /\ arg = None
  /\ result = None
  /\ response = None
  /\ cli = None
  /\ store = NoStore
  /\ minted = <<>>

\* a repeated run is answered as the run before it was
Replays(res) ==
  IF replay = None THEN TRUE
  ELSE /\ Len(answers) < Len(replay[1])
       /\ replay[1][Len(answers) + 1] = res

\* an entry of the request history: the endpoint, its page or activity id,
\* its per_page or size parameter, the credential sent, and the answer:
\* "ok", "notok", "reject", or "malformed" for a success status whose body
\* is not a list
Req(op, n, size, auth, answer) ==
  [op |-> op, n |-> n, size |-> size, auth |-> auth, answer |-> answer]

\* the answer of the feed endpoint as the history records it
FeedAnswer(res) ==
  IF res.outcome = "ok" /\ ~res.json[1].isArray THEN "malformed" ELSE res.outcome

\* the answer of the feed endpoint as `answers` records it: with an unchanged
\* feed, the kind of the answer and its status determine the response
FeedBrief(res) ==
  [answer |-> FeedAnswer(res),
   status |-> IF res.outcome = "notok" THEN res.status ELSE 200]

\* messages of the errors the script throws or receives
FetchFailed == "fetch failed"
WriteFailed == "EACCES: permission denied, open 'public/data/strava-latest.json'"
\* mutant: the message without the response body
TokenRefreshFailedNoBody(text) == "Token refresh failed"

TokenRefreshFailed(text) == "Token refresh failed: " \o text
\* (the script separates status and body by an en dash; here a hyphen)
ActivitiesFetchFailed(status, text) ==
  "Activities fetch failed: " \o ToString(status) \o " - " \o text

\* an exception leaves run(): the promise rejects with it
Throw(message) ==
  /\ pc' = "catch"
  /\ err' = Some(message)

(***************************************************************************)
(* Module top level: the credential check.                                 *)
(***************************************************************************)
\* mutant: the check without the refresh token
StartupTwoOfThree ==
  /\ pc = "start"
  /\ IF \/ ~Truthy(env.STRAVA_CLIENT_ID)
        \/ ~Truthy(env.STRAVA_CLIENT_SECRET)
       THEN pc' = "exited" /\ exitCode' = Some(1)
       ELSE pc' = "token" /\ exitCode' = exitCode
  /\ UNCHANGED <<outside, answers>>
  /\ UNCHANGED <<env, feed, access, page, i, found, err, files, written,
                 writeFails, requests, exchange>>

Startup ==
  /\ pc = "start"
  /\ IF \/ ~Truthy(env.STRAVA_CLIENT_ID)
        \/ ~Truthy(env.STRAVA_CLIENT_SECRET)
        \/ ~Truthy(env.STRAVA_REFRESH_TOKEN)
       THEN pc' = "exited" /\ exitCode' = Some(1)
       ELSE pc' = "token" /\ exitCode' = exitCode
  /\ UNCHANGED <<outside, answers>>
  /\ UNCHANGED <<env, feed, access, page, i, found, err, files, written,
                 writeFails, requests, exchange>>

(***************************************************************************)
(* refreshAccessToken, the first await of run().  The write of the         *)
(* rotation file is taken to succeed.                                      *)
(***************************************************************************)
\* mutant: every refresh token of the response counts as rotated
RotatedAlways(data) == Truthy(data.refresh_token)

\* mutant: only the first rotation is written, an existing file is kept
RotatedFirstOnly(data) ==
  /\ Truthy(data.refresh_token)
  /\ data.refresh_token # env.STRAVA_REFRESH_TOKEN
  /\ files.rotated = None

\* the test of line 44
Rotated(data) ==
  /\ Truthy(data.refresh_token)
  /\ data.refresh_token # env.STRAVA_REFRESH_TOKEN

refreshAccessToken ==
  /\ pc = "token"
  /\ \E res \in TokenResponses :
       /\ Replays(res)
       /\ requests' = Append(requests, Req("token", 0, 0, env.STRAVA_REFRESH_TOKEN, res.outcome))
       /\ answers' = Append(answers, res)
       /\ exchange' = Some(res)
       /\ IF res.outcome = "reject"
            THEN Throw(FetchFailed) /\ UNCHANGED <<files, access>>
          ELSE IF res.outcome = "notok"
            THEN Throw(TokenRefreshFailed(res.text)) /\ UNCHANGED <<files, access>>
          ELSE LET data == res.json[1]
               IN  /\ files' = IF Rotated(data)
                                 THEN [files EXCEPT !.rotated = data.refresh_token]
                                 ELSE files
                   /\ access' = Some(data.access_token)
                   /\ pc' = "page"
                   /\ err' = err
       /\ minted' = Append(minted, IF res.outcome = "ok"
                                     THEN res.json[1].refresh_token ELSE None)
  /\ UNCHANGED <<replay, arg, result, response, cli, store>>
  /\ UNCHANGED <<env, feed, page, i, found, exitCode, written, writeFails>>

(***************************************************************************)
(* findLatestActivityWithPhoto.                                            *)
(***************************************************************************)
\* mutant: only an explicit zero is skipped (total_photo_count !== 0)
HasPhotoCountNoDefault(a) == a.total_photo_count # Some(0)

\* the negation of the skip test of line 108
HasPhotoCount(a) == Nullish(a.total_photo_count, 0) > 0

\* mutant: the outer loop without its page bound
LoopCondUnbounded(p) == p >= 1

\* the condition of the outer loop
LoopCond(p) == p <= MAX_PAGES

\* mutant: the inner loop without the skip of line 108
ScanNoSkip(p, from) ==
  LET activities == ActivitiesPage(PER_PAGE, p)
      rest == from..Len(activities)
  IN  IF rest # {}
        THEN /\ pc' = "gallery"
             /\ page' = p
             /\ i' = from
        ELSE /\ page' = p + 1
             /\ i' = 0
             /\ pc' = IF p + 1 <= MAX_PAGES THEN "page" ELSE "fallback"

\* the inner loop from position `from` of page p on: the next activity that
\* is not skipped gets its gallery request; when the page is used up the outer
\* loop goes to page p + 1, and past MAX_PAGES the function returns null
Scan(p, from) ==
  LET activities == ActivitiesPage(PER_PAGE, p)
      rest == {k \in from..Len(activities) : HasPhotoCount(activities[k])}
  IN  IF rest # {}
        THEN /\ pc' = "gallery"
             /\ page' = p
             /\ i' = CHOOSE k \in rest : \A l \in rest : k <= l
        ELSE /\ page' = p + 1
             /\ i' = 0
             /\ pc' = IF LoopCond(p + 1) THEN "page" ELSE "fallback"

\* the candidate of the inner loop
Candidate == ActivitiesPage(PER_PAGE, page)[i]

\* mutant: a page request that fails ends the scan like an empty page
FetchPageSoft ==
  /\ pc = "page"
  /\ \E res \in FeedResponses(PER_PAGE, page) :
       /\ Replays(FeedBrief(res))
       /\ requests' = Append(requests, Req("activities", page, PER_PAGE, access, FeedAnswer(res)))
       /\ answers' = Append(answers, FeedBrief(res))
       /\ IF res.outcome # "ok" \/ ~res.json[1].isArray \/ Len(res.json[1].items) = 0
            THEN pc' = "fallback" /\ UNCHANGED <<page, i, err>>
            ELSE Scan(page, 1) /\ err' = err
  /\ UNCHANGED outside
  /\ UNCHANGED <<env, feed, access, found, exitCode, files, written,
                 writeFails, exchange>>

\* lines 97-108: request a page
FetchPage ==
  /\ pc = "page"
  /\ \E res \in FeedResponses(PER_PAGE, page) :
       /\ Replays(FeedBrief(res))
       /\ requests' = Append(requests, Req("activities", page, PER_PAGE, access, FeedAnswer(res)))
       /\ answers' = Append(answers, FeedBrief(res))
       /\ IF res.outcome = "reject"
            THEN Throw(FetchFailed) /\ UNCHANGED <<page, i>>
          ELSE IF res.outcome = "notok"
            THEN /\ Throw(ActivitiesFetchFailed(res.status, res.text))
                 /\ UNCHANGED <<page, i>>
          ELSE LET activities == res.json[1]
               IN  IF ~activities.isArray \/ Len(activities.items) = 0
                     THEN pc' = "fallback" /\ UNCHANGED <<page, i, err>>
                     ELSE Scan(page, 1) /\ err' = err
  /\ UNCHANGED outside
  /\ UNCHANGED <<env, feed, access, found, exitCode, files, written,
                 writeFails, exchange>>

\* mutant: the gallery tier takes the first entry that has a url
GalleryBestAnyEntry(res) ==
  IF res.outcome = "ok"
    THEN LET usable == {k \in 1..Len(res.json[1]) :
                          Truthy(pickBestPhotoUrl(Some(res.json[1][k])))}
         IN  IF usable = {} THEN None
             ELSE pickBestPhotoUrl(Some(res.json[1][CHOOSE k \in usable : \A l \in usable : k <= l]))
    ELSE None

\* what the gallery tier makes of the answer of the photos endpoint
GalleryBest(res) ==
  IF res.outcome = "ok" /\ Len(res.json[1]) > 0
    THEN pickBestPhotoUrl(Some(res.json[1][1]))
    ELSE None

\* what the cover-photo tier makes of the answer of the detail endpoint
CoverBest(res) ==
  IF res.outcome = "ok"
    THEN LET detail == res.json[1]
             primary == IF detail.photos = None THEN None
                        ELSE detail.photos[1].primary
         IN  pickBestPhotoUrl(primary)
    ELSE None

\* mutant: a hit is noted and the scan goes on with the next page
HitThenNextPage(a, best) ==
  /\ found' = Some([activity |-> a, photoUrl |-> best[1]])
  /\ pc' = IF page < MAX_PAGES THEN "page" ELSE "compose"
  /\ page' = IF page < MAX_PAGES THEN page + 1 ELSE page
  /\ i' = i

Hit(a, best) ==
  /\ found' = Some([activity |-> a, photoUrl |-> best[1]])
  /\ pc' = "compose"
  /\ UNCHANGED <<page, i>>

\* mutant: the gallery tier without its try/catch
FetchGalleryNoCatch ==
  /\ pc = "gallery"
  /\ LET a == Candidate
         best == GalleryBest(PhotosOf(a.id))
     IN  /\ requests' = Append(requests, Req("photos", a.id, 2048, access, PhotosOf(a.id).outcome))
         /\ IF PhotosOf(a.id).outcome = "reject"
              THEN Throw(FetchFailed) /\ UNCHANGED <<found, page, i>>
            ELSE IF Truthy(best)
              THEN Hit(a, best) /\ err' = err
              ELSE pc' = "detail" /\ UNCHANGED <<found, page, i, err>>
  /\ UNCHANGED <<outside, answers>>
  /\ UNCHANGED <<env, feed, access, exitCode, files, written,
                 writeFails, exchange>>

\* lines 110-123: the gallery tier of the candidate
FetchGallery ==
  /\ pc = "gallery"
  /\ LET a == Candidate
         best == GalleryBest(PhotosOf(a.id))
     IN  /\ requests' = Append(requests, Req("photos", a.id, 2048, access, PhotosOf(a.id).outcome))
         /\ IF Truthy(best)
              THEN Hit(a, best)
              ELSE pc' = "detail" /\ UNCHANGED <<found, page, i>>
  /\ UNCHANGED <<outside, answers>>
  /\ UNCHANGED <<env, feed, access, err, exitCode, files, written,
                 writeFails, exchange>>

\* lines 125-137: the cover-photo tier of the candidate
FetchDetail ==
  /\ pc = "detail"
  /\ LET a == Candidate
         best == CoverBest(DetailOf(a.id))
     IN  /\ requests' = Append(requests, Req("detail", a.id, 0, access, DetailOf(a.id).outcome))
         /\ IF Truthy(best)
              THEN Hit(a, best)
              ELSE Scan(page, i + 1) /\ found' = found
  /\ UNCHANGED <<outside, answers>>
  /\ UNCHANGED <<env, feed, access, err, exitCode, files, written,
                 writeFails, exchange>>

(***************************************************************************)
(* writePayload as run() and the catch handler call it: either the file    *)
(* is written, or the call throws.                                         *)
(***************************************************************************)
writePayload(payload) ==
  /\ files' = [files EXCEPT !.payload = Some(payload)]
  /\ written' = Append(written, payload)
  /\ writeFails' = writeFails

writePayloadThrows ==
  /\ writeFails' = writeFails + 1
  /\ UNCHANGED <<files, written>>

athleteUrl ==
  IF Truthy(env.STRAVA_ATHLETE_ID)
    THEN Some("https://www.strava.com/athletes/" \o env.STRAVA_ATHLETE_ID[1])
    ELSE None

activityUrl(a) == "https://www.strava.com/activities/" \o ToString(a.id)

\* mutant: the photo url carries the time of the run as a cache buster
SuccessPayloadCacheBust(a, photoUrl, t) ==
  [athleteUrl |-> athleteUrl,
   activityUrl |-> activityUrl(a),
   photoUrl |-> IF photoUrl = None THEN None
                ELSE Some(photoUrl[1] \o "?t=" \o ToString(t)),
   stats |-> buildStats(a),
   fetchedAt |-> t]

SuccessPayload(a, photoUrl, t) ==
  [athleteUrl |-> athleteUrl,
   activityUrl |-> activityUrl(a),
   photoUrl |-> photoUrl,
   stats |-> buildStats(a),
   fetchedAt |-> t]

\* mutant: the error payload of the superseded variant, without fetchedAt
ErrorPayloadNoTime(message, t) == [error |-> message]

ErrorPayload(message, t) == [error |-> message, fetchedAt |-> t]

\* the last statement of run(): write the payload and return, or throw
Finish(payload) ==
  \/ /\ writePayload(payload)
     /\ pc' = "exited"
     /\ exitCode' = Some(0)
     /\ err' = err
  \/ /\ writePayloadThrows
     /\ Throw(WriteFailed)
     /\ exitCode' = exitCode

\* answers of GET /athlete/activities?per_page=1
NewestResponses ==
  {Ok([isArray |-> TRUE, items |-> ActivitiesPage(1, 1)]),
   Ok([isArray |-> FALSE, items |-> <<>>]),
   Reject}
  \cup {[outcome |-> "notok", json |-> None, status |-> s, text |-> "Rate Limit Exceeded"] :
          s \in Statuses}

\* mutant: not-found is reported as an error
FallbackAsError ==
  /\ pc = "fallback"
  /\ \E res \in NewestResponses :
       /\ Replays(FeedBrief(res))
       /\ requests' = Append(requests, Req("newest", 1, 1, access, FeedAnswer(res)))
       /\ answers' = Append(answers, FeedBrief(res))
       /\ IF res.outcome = "reject"
            THEN Throw(FetchFailed) /\ UNCHANGED <<files, written, writeFails, exitCode>>
          ELSE IF res.outcome = "notok"
            THEN /\ Throw(ActivitiesFetchFailed(res.status, res.text))
                 /\ UNCHANGED <<files, written, writeFails, exitCode>>
          ELSE \E t \in Timestamps : Finish(ErrorPayload("No activities found", t))
  /\ UNCHANGED outside
  /\ UNCHANGED <<env, feed, access, page, i, found, exchange>>

\* lines 161-181: no photo was found
Fallback ==
  /\ pc = "fallback"
  /\ \E res \in NewestResponses :
       /\ Replays(FeedBrief(res))
       /\ requests' = Append(requests, Req("newest", 1, 1, access, FeedAnswer(res)))
       /\ answers' = Append(answers, FeedBrief(res))
       /\ IF res.outcome = "reject"
            THEN Throw(FetchFailed) /\ UNCHANGED <<files, written, writeFails, exitCode>>
          ELSE IF res.outcome = "notok"
            THEN /\ Throw(ActivitiesFetchFailed(res.status, res.text))
                 /\ UNCHANGED <<files, written, writeFails, exitCode>>
          ELSE LET activities == res.json[1]
                   \* activities?.[0]
                   a == IF ~activities.isArray \/ Len(activities.items) = 0
                          THEN None ELSE Some(activities.items[1])
               IN  \E t \in Timestamps :
                     IF a = None
                       THEN Finish(ErrorPayload("No activities found", t))
                       ELSE Finish(SuccessPayload(a[1], None, t))
  /\ UNCHANGED outside
  /\ UNCHANGED <<env, feed, access, page, i, found, exchange>>

\* lines 183-191: a photo was found
Compose ==
  /\ pc = "compose"
  /\ \E t \in Timestamps :
       Finish(SuccessPayload(found[1].activity, Some(found[1].photoUrl), t))
  /\ UNCHANGED <<outside, answers>>
  /\ UNCHANGED <<env, feed, access, page, i, found, requests, exchange>>

\* mutant: the handler only logs the error
CatchLogOnly ==
  /\ pc = "catch"
  /\ pc' = "exited"
  /\ exitCode' = Some(0)
  /\ UNCHANGED <<outside, answers>>
  /\ UNCHANGED <<env, feed, access, page, i, found, err, files, written,
                 writeFails, requests, exchange>>

(***************************************************************************)
(* run().catch: write the error payload and keep the build green.  When    *)
(* this write throws too the rejection is unhandled and node exits 1.      *)
(***************************************************************************)
Catch ==
  /\ pc = "catch"
  /\ \/ /\ \E t \in Timestamps : writePayload(ErrorPayload(err[1], t))
        /\ exitCode' = Some(0)
     \/ /\ writePayloadThrows
        /\ exitCode' = Some(1)
  /\ pc' = "exited"
  /\ UNCHANGED <<outside, answers>>
  /\ UNCHANGED <<env, feed, access, page, i, found, err, requests, exchange>>

Next ==
  \/ Startup
  \/ refreshAccessToken
  \/ FetchPage
  \/ FetchGallery
  \/ FetchDetail
  \/ Fallback
  \/ Compose
  \/ Catch

Spec == Init /\ [][Next]_vars

(***************************************************************************)
(* Vocabulary of the properties.                                           *)
(***************************************************************************)
PassedStartup ==
  /\ env.STRAVA_CLIENT_ID \notin {None, Some("")}
  /\ env.STRAVA_CLIENT_SECRET \notin {None, Some("")}
  /\ env.STRAVA_REFRESH_TOKEN \notin {None, Some("")}

IsErrorPayload(p) == DOMAIN p = {"error", "fetchedAt"}
IsSuccessPayload(p) ==
  DOMAIN p = {"athleteUrl", "activityUrl", "photoUrl", "stats", "fetchedAt"}

\* the part of the feed that discovery may examine
ScanBound == MAX_PAGES * PER_PAGE
Examined == 1..(IF FeedLen < ScanBound THEN FeedLen ELSE ScanBound)

\* activity k of the feed claims a photo
CountsPhotos(k) ==
  LET c == Entry(k).a.total_photo_count IN c # None /\ c[1] > 0

\* the url the two tiers give for activity k of the feed, gallery first
TierUrl(k) ==
  IF GalleryBest(PhotosOf(k)) # None THEN GalleryBest(PhotosOf(k))
  ELSE CoverBest(DetailOf(k))

\* activity k claims a photo and one of the two tiers yields its url
Fetchable(k) == CountsPhotos(k) /\ TierUrl(k) # None

\* discovery ran to its end: past the page bound, or to an empty page
Exhausted ==
  /\ pc = "fallback"
  /\ \/ page > MAX_PAGES
     \/ requests[Len(requests)].answer = "ok"

(***************************************************************************)
(* C1.  A run that passes the credential check never persists more than    *)
(* one payload (so no success payload is followed by an error payload),    *)
(* and when it has ended without a failing local write it has persisted    *)
(* exactly one, which is the content of the payload file, whichever        *)
(* upstream request failed.                                                *)
(***************************************************************************)
C1_ExactlyOnePayload ==
  /\ Len(written) <= 1
  /\ (pc = "exited" /\ PassedStartup /\ writeFails = 0) =>
       /\ Len(written) = 1
       /\ files.payload = Some(written[1])
       /\ IsErrorPayload(written[1]) \/ IsSuccessPayload(written[1])

\* a run ends with an error payload after a feed page failed in mid-scan,
\* behind photo requests that failed as well
C1_Witness ==
  /\ pc = "exited"
  /\ writeFails = 0
  /\ Len(written) = 1
  /\ IsErrorPayload(written[1])
  /\ \E j \in 1..Len(requests) : requests[j].op = "detail" /\ requests[j].answer = "reject"
  /\ requests[Len(requests)].op = "activities"

(***************************************************************************)
(* C2.  A hit of findLatestActivityWithPhoto is the first activity of the  *)
(* feed, within the scan bound, that has a positive photo count and whose  *)
(* gallery or cover tier yields a url: nothing before it is fetchable, the *)
(* activity and the url of the first yielding tier are returned; and when  *)
(* discovery runs to its end without a hit, no examined activity is        *)
(* fetchable.  So the hit does not depend on the photo-less padding.       *)
(***************************************************************************)
C2_FirstFetchable ==
  /\ found # None =>
       LET k == found[1].activity.id
       IN  /\ k \in Examined
           /\ Fetchable(k)
           /\ \A j \in 1..(k - 1) : ~Fetchable(j)
           /\ found[1].activity = ActivityAt(k)
           /\ Some(found[1].photoUrl) = TierUrl(k)
           /\ k > feed.pad
  /\ Exhausted => \A j \in Examined : ~Fetchable(j)

\* the hit follows a full page of padding and a candidate without a photo
C2_Witness ==
  /\ found # None
  /\ feed.pad >= PER_PAGE - 1
  /\ found[1].activity.id = feed.pad + 2
  /\ CountsPhotos(feed.pad + 1)

(***************************************************************************)
(* C3.  No gallery request and no detail request is issued for an activity *)
(* whose total_photo_count is zero or absent.                              *)
(***************************************************************************)
C3_NoPhotoRequestWithoutCount ==
  \A j \in 1..Len(requests) :
    requests[j].op \in {"photos", "detail"} =>
      Entry(requests[j].n).a.total_photo_count \notin {None, Some(0)}

\* a photo request was issued behind padding and an activity without a count
C3_Witness ==
  /\ feed.pad > 0
  /\ \E j \in 1..Len(requests) :
       /\ requests[j].op = "photos"
       /\ requests[j].n = feed.pad + 2
       /\ Entry(feed.pad + 1) = Uncounted

(***************************************************************************)
(* C4.  Discovery is bounded and never stuck: the feed page requests are   *)
(* pages 1, 2, ... in this order, each of size 50, at most 40 of them; no  *)
(* photo request concerns an activity behind position 2000; the number of  *)
(* requests of a run is bounded; every state but the final one has a next  *)
(* step; and a scan that passes the page bound has asked for exactly 40    *)
(* pages and returns not-found.                                            *)
(***************************************************************************)
IsPageRequest(r) == r.op = "activities"

C4_BoundedDiscovery ==
  LET pages == SelectSeq(requests, IsPageRequest)
  IN  /\ Len(pages) <= 40
      /\ \A j \in 1..Len(pages) : pages[j].n = j /\ pages[j].size = 50
      /\ \A j \in 1..Len(requests) :
           requests[j].op \in {"photos", "detail"} => requests[j].n <= 2000
      /\ Len(requests) <= 1 + 40 + 2 * Len(feed.acts) + 1
      /\ pc = "exited" \/ ENABLED Next
      /\ (pc = "fallback" /\ page > 40) => Len(pages) = 40 /\ found = None

\* forty pages, none of them empty and none with a photo, then not-found
C4_Witness ==
  /\ pc = "fallback"
  /\ page = MAX_PAGES + 1
  /\ FeedLen > MAX_PAGES * PER_PAGE
  /\ Len(SelectSeq(requests, IsPageRequest)) = MAX_PAGES
  /\ found = None

(***************************************************************************)
(* C5.  A photo request that fails (transport failure or non-success       *)
(* status) is never what run() rejects with.  After a failed gallery       *)
(* request the next request is the detail request of the same activity,    *)
(* and a hit on it carries the cover photo's url; after a failed detail    *)
(* request discovery goes on: with the gallery request of the next         *)
(* activity of the page that claims a photo, else with the next page, else *)
(* (past the page bound) with the fallback request.                        *)
(***************************************************************************)
PhotoFailed(r) == r.answer \in {"notok", "reject"}

PageOf(k) == ((k - 1) \div PER_PAGE) + 1

\* the activities behind k on k's page that claim a photo
LaterOnPage(k) ==
  {l \in (k + 1)..(PageOf(k) * PER_PAGE) : l <= FeedLen /\ CountsPhotos(l)}

\* what discovery does once both tiers of activity k gave nothing
AfterMiss(k, op, n) ==
  IF LaterOnPage(k) # {}
    THEN op = "photos" /\ n \in LaterOnPage(k) /\ \A l \in LaterOnPage(k) : n <= l
  ELSE IF PageOf(k) < MAX_PAGES
    THEN op = "activities" /\ n = PageOf(k) + 1
  ELSE op = "newest"

\* the request the script is about to issue
Pending ==
  [op |-> CASE pc = "gallery" -> "photos"
            [] pc = "detail" -> "detail"
            [] pc = "page" -> "activities"
            [] pc = "fallback" -> "newest"
            [] OTHER -> "none",
   n |-> CASE pc \in {"gallery", "detail"} -> Candidate.id
           [] pc = "page" -> page
           [] OTHER -> 1]

C5_PhotoTiersBestEffort ==
  /\ \A j \in 1..Len(requests) :
       LET r == requests[j]
           nxt == IF j < Len(requests) THEN requests[j + 1] ELSE Pending
       IN  /\ (r.op = "photos" /\ PhotoFailed(r)) =>
                nxt.op = "detail" /\ nxt.n = r.n
           /\ (r.op = "detail" /\ PhotoFailed(r)) =>
                AfterMiss(r.n, nxt.op, nxt.n)
  /\ (err # None /\ err[1] # WriteFailed) =>
       requests[Len(requests)].op \notin {"photos", "detail"}
  /\ \A w \in 1..Len(written) :
       (IsErrorPayload(written[w]) /\ written[w].error # WriteFailed) =>
         requests[Len(requests)].op \notin {"photos", "detail"}
  /\ (found # None /\ PhotosOf(found[1].activity.id).outcome # "ok") =>
       /\ DetailOf(found[1].activity.id).outcome = "ok"
       /\ found[1].photoUrl = "https://cdn/cover-1000.jpg"

\* both tiers of one activity failed, then the gallery of the next failed
\* and its cover photo is the hit
C5_Witness ==
  /\ found # None
  /\ found[1].activity.id >= 2
  /\ Entry(found[1].activity.id) = WithCover
  /\ Entry(found[1].activity.id - 1) = Broken
  /\ pc = "exited"
  /\ Len(written) = 1
  /\ IsSuccessPayload(written[1])

(***************************************************************************)
(* C6.  A feed page request that fails (non-success status or transport    *)
(* failure) is the last request of the run: no page, photo or fallback     *)
(* request follows, discovery returns nothing, run() rejects with the      *)
(* failure, and the only payload the run can persist is the error payload  *)
(* carrying the failure's message, never a stats-only payload.             *)
(***************************************************************************)
C6_FeedFailureIsFatal ==
  \A j \in 1..Len(requests) :
    (requests[j].op = "activities" /\ requests[j].answer \in {"notok", "reject"}) =>
      /\ j = Len(requests)
      /\ found = None
      /\ pc \in {"catch", "exited"}
      /\ err # None
      /\ requests[j].answer = "notok" =>
           \E st \in Statuses : err[1] = ActivitiesFetchFailed(st, "Rate Limit Exceeded")
      /\ \A w \in 1..Len(written) :
           /\ IsErrorPayload(written[w])
           /\ written[w].error = err[1]
      /\ (pc = "exited" /\ writeFails = 0) => Len(written) = 1 /\ exitCode = Some(0)

\* page 2 fails with a non-success status after page 1 had candidates
C6_Witness ==
  /\ pc = "exited"
  /\ Len(written) = 1
  /\ Len(requests) >= 4
  /\ requests[Len(requests)].op = "activities"
  /\ requests[Len(requests)].n = 2
  /\ requests[Len(requests)].answer = "notok"
  /\ requests[Len(requests) - 1].op = "detail"

(***************************************************************************)
(* C7.  When page 1 of the feed comes back with zero activities, and the   *)
(* fallback request is answered as well, the run persists exactly one      *)
(* payload, {error: "No activities found", fetchedAt}, with both fields    *)
(* and no other.                                                           *)
(***************************************************************************)
C7_EmptyFeedPayload ==
  ( /\ pc = "exited"
    /\ writeFails = 0
    /\ FeedLen = 0
    /\ Len(requests) = 3
    /\ requests[2].op = "activities" /\ requests[2].n = 1 /\ requests[2].answer = "ok"
    /\ requests[3].answer = "ok" ) =>
      /\ Len(written) = 1
      /\ DOMAIN written[1] = {"error", "fetchedAt"}
      /\ written[1].error = "No activities found"
      /\ written[1].fetchedAt \in Timestamps
      /\ files.payload = Some(written[1])

\* the run on an empty feed has ended
C7_Witness ==
  /\ pc = "exited"
  /\ FeedLen = 0
  /\ Len(requests) = 3
  /\ requests[2].answer = "ok"
  /\ requests[3].op = "newest" /\ requests[3].answer = "ok"
  /\ Len(written) = 1
  /\ written[1].error = "No activities found"

(***************************************************************************)
(* C8.  The rotation file is written exactly when the token exchange       *)
(* succeeded with a refresh token that differs from the configured one; it *)
(* then holds that token.  After a successful exchange the run goes on to  *)
(* discovery, and every later request carries the access token of that     *)
(* exchange, never the rotated refresh token; the exchange itself is sent  *)
(* the configured refresh token and happens once.                          *)
(***************************************************************************)
C8_RotationSideChannel ==
  /\ exchange = None => files.rotated = None /\ requests = <<>>
  /\ exchange # None =>
       LET res == exchange[1]
           issued == IF res.outcome = "ok" THEN res.json[1].refresh_token ELSE None
           token == IF res.outcome = "ok" THEN Some(res.json[1].access_token) ELSE None
       IN  /\ (files.rotated # None) <=>
                (issued \notin {None, Some("")} /\ issued # env.STRAVA_REFRESH_TOKEN)
           /\ files.rotated # None => files.rotated = issued
           /\ requests[1].op = "token"
           /\ requests[1].auth = env.STRAVA_REFRESH_TOKEN
           /\ (res.outcome = "ok" /\ Len(requests) = 1) => pc = "page" /\ access = token
           /\ res.outcome # "ok" => Len(requests) = 1
           /\ \A j \in 2..Len(requests) :
                /\ requests[j].op # "token"
                /\ requests[j].auth = token
                /\ requests[j].auth # files.rotated

\* a run that saw a rotation went through discovery to its end
C8_Witness ==
  /\ pc = "exited"
  /\ files.rotated = Some("rt1")
  /\ env.STRAVA_REFRESH_TOKEN = Some("rt0")
  /\ Len(requests) >= 3
  /\ requests[3].op = "photos"
  /\ requests[3].auth = Some("at1")

(***************************************************************************)
(* C9.  When discovery returns not-found, the feed holds an activity and   *)
(* the fallback request is answered with it, the run persists one success  *)
(* payload: photoUrl null, activityUrl and stats those of the newest       *)
(* activity of the feed.  Not-found is not turned into an error payload:   *)
(* an error payload of such a run carries the failure of the fallback      *)
(* request or of the write, or answers a fallback body that is no list.    *)
(***************************************************************************)
C9_StatsOnlyFallback ==
  LET last == requests[Len(requests)]
      fellBack == FeedLen > 0 /\ requests # <<>> /\ last.op = "newest"
  IN  /\ fellBack =>
           /\ found = None
           /\ \A w \in 1..Len(written) :
                \/ /\ IsSuccessPayload(written[w])
                   /\ written[w].photoUrl = None
                   /\ last.answer = "ok"
                \/ /\ IsErrorPayload(written[w])
                   /\ \/ last.answer \in {"notok", "reject", "malformed"}
                      \/ written[w].error = WriteFailed
      /\ (fellBack /\ pc = "exited" /\ writeFails = 0 /\ last.answer = "ok") =>
           /\ Len(written) = 1
           /\ IsSuccessPayload(written[1])
           /\ written[1].photoUrl = None
           /\ written[1].activityUrl = "https://www.strava.com/activities/1"
           /\ written[1].stats = buildStats(Entry(1).a)
           /\ written[1].fetchedAt \in Timestamps

\* the newest activity claims photos, no tier of any activity yields one
C9_Witness ==
  /\ pc = "exited"
  /\ found = None
  /\ feed.pad = 0
  /\ Len(feed.acts) = 2
  /\ CountsPhotos(1) /\ CountsPhotos(2)
  /\ Len(written) = 1
  /\ IsSuccessPayload(written[1])
  /\ written[1].photoUrl = None
  /\ written[1].stats = [isRun |-> FALSE, duration |-> "1:15"]

(***************************************************************************)
(* C10.  When the token endpoint answers with a non-success status, the    *)
(* exchange is the only request of the run, run() rejects and the handler  *)
(* catches it: every payload persisted is {error, fetchedAt} with the raw  *)
(* response body inside the error text, and a run that ends without a      *)
(* failing local write has persisted it and exits with status 0.           *)
(***************************************************************************)
Contains(str, sub) ==
  \E k \in 1..(Len(str) - Len(sub) + 1) : SubSeq(str, k, k + Len(sub) - 1) = sub

C10_TokenFailure ==
  (exchange # None /\ exchange[1].outcome = "notok") =>
    /\ Len(requests) = 1
    /\ requests[1].op = "token"
    /\ found = None
    /\ pc \in {"catch", "exited"}
    /\ \A w \in 1..Len(written) :
         /\ DOMAIN written[w] = {"error", "fetchedAt"}
         /\ Contains(written[w].error, exchange[1].text)
    /\ (pc = "exited" /\ writeFails = 0) =>
         /\ Len(written) = 1
         /\ files.payload = Some(written[1])
         /\ exitCode = Some(0)

\* the run has ended on a rejected exchange
C10_Witness ==
  /\ pc = "exited"
  /\ exchange # None
  /\ exchange[1].outcome = "notok"
  /\ exitCode = Some(0)
  /\ Len(written) = 1
  /\ written[1].error = "Token refresh failed: invalid_grant"

(***************************************************************************)
(* C11.  When one of the three credentials is absent (unset or empty) the  *)
(* process sends no request and writes neither the payload file nor the    *)
(* rotation file; its only step is the exit, with status 1.                *)
(***************************************************************************)
C11_MissingCredential ==
  ~PassedStartup =>
    /\ requests = <<>>
    /\ exchange = None
    /\ files = [payload |-> None, rotated |-> None]
    /\ written = <<>>
    /\ writeFails = 0
    /\ pc \in {"start", "exited"}
    /\ pc = "start" => ENABLED Startup
    /\ pc = "exited" => exitCode = Some(1)

\* the process has exited on an empty client secret
C11_Witness ==
  /\ pc = "exited"
  /\ exitCode = Some(1)
  /\ env.STRAVA_CLIENT_SECRET = Some("")
  /\ env.STRAVA_REFRESH_TOKEN = Some("rt0")

(***************************************************************************)
(* The two pure functions of the script, applied to arguments of their own *)
(* choice: one call of pickBestPhotoUrl or of buildStats per behaviour.    *)
(***************************************************************************)
\* distances are 0, 500, ..., 500 * MaxDist metres
MaxDist == 40
\* moving times are 0, 74, 75, 149, 150, ..., 75 * MaxMov seconds
MaxMov == 48

\* a field of a photo record: absent, the empty string, or a url of its own
UrlField(name) == {None, Some(""), Some("https://cdn/" \o name \o ".jpg")}

\* the photo records: null, records without a urls map, records with one
PhotoInputs ==
  {None}
  \cup {Some([urls |-> None, url |-> g]) : g \in UrlField("generic")}
  \cup {Some(Photo(a, b, c, g)) :
          a \in UrlField("2048"), b \in UrlField("1200"),
          c \in UrlField("1000"), g \in UrlField("generic")}

SportTypes == {None, Some("Run"), Some("TrailRun"), Some("Ride"), Some("VirtualRide"), Some("Walk")}
Types == {Some("Run"), Some("Ride"), Some("Walk")}
DistanceInputs == {None} \cup {Some(500 * k) : k \in 0..MaxDist}
\* moving_time and elapsed_time; elapsed_time counts when moving_time is absent.
\* Beside the multiples of 75 s, the times one second short of them.
TimeInputs ==
  {[moving_time |-> Some(75 * k), elapsed_time |-> Some(75 * k + 60)] : k \in 0..MaxMov}
  \cup {[moving_time |-> Some(75 * k - 1), elapsed_time |-> Some(75 * k + 59)] : k \in 1..MaxMov}
  \cup {[moving_time |-> None, elapsed_time |-> e] : e \in {None, Some(1560)}}

ActivityInputs ==
  {[total_photo_count |-> None, sport_type |-> st, type |-> ty, distance |-> d,
    moving_time |-> tm.moving_time, elapsed_time |-> tm.elapsed_time] :
     st \in SportTypes, ty \in Types, d \in DistanceInputs, tm \in TimeInputs}

Calls ==
  {[fn |-> "pickBestPhotoUrl", p |-> p] : p \in PhotoInputs}
  \cup {[fn |-> "buildStats", activity |-> a] : a \in ActivityInputs}

PureInit ==
  /\ arg \in {Some(c) : c \in Calls}
  /\ result = None
  /\ pc = "call"
  /\ env = Env(Some("cid"), Some("sec"), Some("rt0"), None)
  /\ feed = [pad |-> 0, acts |-> <<>>]
  /\ access = None
  /\ page = 1
  /\ i = 0
  /\ found = None
  /\ err = None
  /\ exitCode = None
  /\ files = [payload |-> None, rotated |-> None]
  /\ written = <<>>
  /\ writeFails = 0
  /\ requests = <<>>
  /\ exchange = None
  /\ answers = <<>>
  /\ replay = None
  /\ response = None
  /\ cli = None
  /\ store = NoStore
  /\ minted = <<>>

Returns(value) ==
  /\ result' = Some(value)
  /\ pc' = "returned"
  /\ UNCHANGED <<env, feed, access, page, i, found, err, exitCode, files,
                 written, writeFails, requests, exchange, answers, replay,
                 arg, response, cli, store, minted>>

CallPickBestPhotoUrl ==
  /\ pc = "call"
  /\ arg[1].fn = "pickBestPhotoUrl"
  /\ Returns(pickBestPhotoUrl(arg[1].p))

CallBuildStats ==
  /\ pc = "call"
  /\ arg[1].fn = "buildStats"
  /\ Returns(buildStats(arg[1].activity))

PureNext ==
  \/ CallPickBestPhotoUrl
  \/ CallBuildStats

SpecPure == PureInit /\ [][PureNext]_vars

\* the call of the behaviour has returned
Returned(fn) == pc = "returned" /\ arg[1].fn = fn

(***************************************************************************)
(* C12.  pickBestPhotoUrl returns the first url that is present (a         *)
(* non-empty string) in the order 2048, 1200, 1000, generic url, and null  *)
(* exactly when none of the four is present.                               *)
(***************************************************************************)
IsUrl(m) == m # None /\ m[1] # ""

\* the four urls of a photo record in the order of preference
Preference(p) ==
  IF p = None THEN <<None, None, None, None>>
  ELSE IF p[1].urls = None THEN <<None, None, None, p[1].url>>
  ELSE <<p[1].urls[1]["2048"], p[1].urls[1]["1200"], p[1].urls[1]["1000"], p[1].url>>

C12_BestPhotoUrl ==
  Returned("pickBestPhotoUrl") =>
    LET pref == Preference(arg[1].p)
        best == result[1]
    IN  /\ best = None <=> \A k \in 1..4 : ~IsUrl(pref[k])
        /\ best # None =>
             \E k \in 1..4 :
               /\ best = pref[k]
               /\ IsUrl(pref[k])
               /\ \A j \in 1..(k - 1) : ~IsUrl(pref[j])

\* the 2048 url is absent, the 1200 url empty, the 1000 url is returned
\* though the generic url is present as well
C12_Witness ==
  /\ Returned("pickBestPhotoUrl")
  /\ arg[1].p = Some(Photo(None, Some(""), Some("https://cdn/1000.jpg"),
                           Some("https://cdn/generic.jpg")))
  /\ result = Some(Some("https://cdn/1000.jpg"))

(***************************************************************************)
(* Vocabulary of the stats claims, stated on the quantities themselves:    *)
(* distance in metres, time in seconds.                                    *)
(***************************************************************************)
\* sport_type when present, else type
EffectiveType(a) == IF IsUrl(a.sport_type) THEN a.sport_type ELSE a.type
RunLike(a) == EffectiveType(a) \in {Some("Run"), Some("TrailRun")}
RideLike(a) == EffectiveType(a) \in {Some("Ride"), Some("VirtualRide")}
MetresOf(a) == IF a.distance = None THEN 0 ELSE a.distance[1]
SecondsOf(a) ==
  IF a.moving_time # None THEN a.moving_time[1]
  ELSE IF a.elapsed_time # None THEN a.elapsed_time[1] ELSE 0

TwoDigits(n) == IF n <= 9 THEN "0" \o ToString(n) ELSE ToString(n)

\* t seconds (less than a hundred hours) as M:SS below one hour, as H:MM:SS
\* from one hour on
Clock(t) ==
  LET hh == CHOOSE h \in 0..99 : 3600 * h <= t /\ t < 3600 * (h + 1)
      mm == CHOOSE m \in 0..59 : 60 * m <= t - 3600 * hh /\ t - 3600 * hh < 60 * (m + 1)
      ss == t - 3600 * hh - 60 * mm
  IN  IF hh = 0 THEN ToString(mm) \o ":" \o TwoDigits(ss)
      ELSE ToString(hh) \o ":" \o TwoDigits(mm) \o ":" \o TwoDigits(ss)

\* d metres in km with two decimals: the nearest hundredth c/100
KmLabel(d) ==
  LET c == CHOOSE n \in 0..(d \div 10 + 1) : 10 * n - 5 <= d /\ d < 10 * n + 5
  IN  ToString(c \div 100) \o "." \o TwoDigits(c % 100) \o " km"

\* t seconds over d metres as a pace: whole minutes of t/(d/1000) seconds per
\* km, and the rest of it rounded to a whole second
PaceLabel(d, t) ==
  LET minutes == CHOOSE m \in 0..((17 * t) \div d + 1) : 60 * m * d <= 1000 * t /\ 1000 * t < 60 * (m + 1) * d
      rest == 1000 * t - 60 * minutes * d      \* rest/d seconds
      seconds == CHOOSE n \in 0..60 : (2 * n - 1) * d <= 2 * rest /\ 2 * rest < (2 * n + 1) * d
  IN  ToString(minutes) \o ":" \o TwoDigits(seconds) \o "/km"

(***************************************************************************)
(* C13.  For a Run or TrailRun with a positive distance buildStats returns *)
(* the run variant: isRun true, the distance in km with two decimals, the  *)
(* pace movingTime/distanceKm as M:SS/km and the duration as hms gives it, *)
(* and no other field.  5000 m in 1500 s gives "5.00 km", "5:00/km" and    *)
(* "25:00".                                                                *)
(***************************************************************************)
C13_RunStats ==
  /\ buildStats([total_photo_count |-> None, sport_type |-> Some("Run"),
                 type |-> Some("Run"), distance |-> Some(5000),
                 moving_time |-> Some(1500), elapsed_time |-> Some(1600)])
       = [isRun |-> TRUE, distance |-> "5.00 km", pace |-> "5:00/km",
          duration |-> "25:00"]
  /\ Returned("buildStats") =>
       LET a == arg[1].activity
           stats == result[1]
       IN  (RunLike(a) /\ MetresOf(a) > 0) =>
             /\ DOMAIN stats = {"isRun", "distance", "pace", "duration"}
             /\ stats.isRun = TRUE
             /\ stats.distance = KmLabel(MetresOf(a))
             /\ stats.pace = PaceLabel(MetresOf(a), SecondsOf(a))
             /\ stats.duration = Clock(SecondsOf(a))

\* a trail run of 5000 m in 1500 s, typed by sport_type
C13_Witness ==
  /\ Returned("buildStats")
  /\ arg[1].activity.sport_type = Some("TrailRun")
  /\ arg[1].activity.type = Some("Ride")
  /\ arg[1].activity.distance = Some(5000)
  /\ arg[1].activity.moving_time = Some(1500)
  /\ result[1] = [isRun |-> TRUE, distance |-> "5.00 km", pace |-> "5:00/km",
                  duration |-> "25:00"]

(***************************************************************************)
(* C14.  For a Ride or VirtualRide with a positive distance buildStats     *)
(* returns the ride variant: isRun false, the distance in km with two      *)
(* decimals, the speed in km/h with one decimal, the duration, and no pace *)
(* field.  20000 m in 3600 s gives "20.0 km/h", "20.00 km" and "1:00:00".  *)
(***************************************************************************)
\* d metres in t > 0 seconds as a speed: the tenth c/10 nearest to
\* (d/1000)/(t/3600) = 36d/(10t) km/h
SpeedLabel(d, t) ==
  LET c == CHOOSE n \in 0..((36 * d) \div t + 1) :
             (2 * n - 1) * t <= 72 * d /\ 72 * d < (2 * n + 1) * t
  IN  ToString(c \div 10) \o "." \o ToString(c % 10) \o " km/h"

C14_RideStats ==
  /\ buildStats([total_photo_count |-> None, sport_type |-> Some("Ride"),
                 type |-> Some("Ride"), distance |-> Some(20000),
                 moving_time |-> Some(3600), elapsed_time |-> Some(3700)])
       = [isRun |-> FALSE, distance |-> "20.00 km", speed |-> "20.0 km/h",
          duration |-> "1:00:00"]
  /\ Returned("buildStats") =>
       LET a == arg[1].activity
           stats == result[1]
       IN  (RideLike(a) /\ MetresOf(a) > 0) =>
             /\ DOMAIN stats = {"isRun", "distance", "speed", "duration"}
             /\ stats.isRun = FALSE
             /\ stats.distance = KmLabel(MetresOf(a))
             /\ SecondsOf(a) > 0 => stats.speed = SpeedLabel(MetresOf(a), SecondsOf(a))
             /\ stats.duration = Clock(SecondsOf(a))

\* a virtual ride of 20000 m in one hour, typed by sport_type
C14_Witness ==
  /\ Returned("buildStats")
  /\ arg[1].activity.sport_type = Some("VirtualRide")
  /\ arg[1].activity.type = Some("Run")
  /\ arg[1].activity.distance = Some(20000)
  /\ arg[1].activity.moving_time = Some(3600)
  /\ result[1] = [isRun |-> FALSE, distance |-> "20.00 km", speed |-> "20.0 km/h",
                  duration |-> "1:00:00"]

(***************************************************************************)
(* C15.  buildStats returns for every activity.  With a distance that is   *)
(* zero or absent the result has the duration only, whatever the type;     *)
(* with a positive distance and a moving time of zero the pace of a run is *)
(* "0:00/km" and the speed of a ride "0.0 km/h".                           *)
(***************************************************************************)
C15_StatsTotal ==
  /\ pc = "call" => ENABLED PureNext
  /\ Returned("buildStats") =>
       LET a == arg[1].activity
           stats == result[1]
       IN  /\ "duration" \in DOMAIN stats
           /\ stats.duration = Clock(SecondsOf(a))
           /\ a.distance \in {None, Some(0)} =>
                stats = [isRun |-> FALSE, duration |-> Clock(SecondsOf(a))]
           /\ (MetresOf(a) > 0 /\ SecondsOf(a) = 0 /\ RunLike(a)) =>
                stats.pace = "0:00/km"
           /\ (MetresOf(a) > 0 /\ SecondsOf(a) = 0 /\ RideLike(a)) =>
                stats.speed = "0.0 km/h"
           /\ (MetresOf(a) > 0 /\ ~RunLike(a) /\ ~RideLike(a)) =>
                stats = [isRun |-> FALSE, duration |-> Clock(SecondsOf(a))]

\* a ride with a positive distance and without any time
C15_Witness ==
  /\ Returned("buildStats")
  /\ arg[1].activity.sport_type = Some("Ride")
  /\ arg[1].activity.distance = Some(500)
  /\ arg[1].activity.moving_time = None
  /\ arg[1].activity.elapsed_time = None
  /\ result[1] = [isRun |-> FALSE, distance |-> "0.50 km", speed |-> "0.0 km/h",
                  duration |-> "0:00"]

(***************************************************************************)
(* The script run twice: when a run has written its payload the script is  *)
(* started again, a new process with the same environment, against the     *)
(* same feed; the files of the first run are still there, and the token    *)
(* and the feed endpoint answer every request as they answered it before.  *)
(***************************************************************************)
Rerun ==
  /\ pc = "exited"
  /\ replay = None
  /\ writeFails = 0
  /\ Len(written) = 1
  /\ replay' = Some(answers)
  /\ answers' = <<>>
  /\ requests' = <<>>
  /\ exchange' = None
  /\ pc' = "start"
  /\ access' = None
  /\ page' = 1
  /\ i' = 0
  /\ found' = None
  /\ err' = None
  /\ exitCode' = None
  /\ UNCHANGED <<env, feed, files, written, writeFails, arg, result, response,
                 cli, store, minted>>

TwiceNext ==
  \/ Next
  \/ Rerun

\* the feeds of the repeated runs: those of at most two pages
TwiceInit ==
  /\ Init
  /\ FeedLen <= 2 * PER_PAGE

SpecTwice == TwiceInit /\ [][TwiceNext]_vars

\* a payload without its timestamp
SansTime(payload) == [k \in DOMAIN payload \ {"fetchedAt"} |-> payload[k]]

(***************************************************************************)
(* C16.  Two runs against the same feed that are given the same upstream   *)
(* answers, and whose writes succeed, write payloads that agree in every   *)
(* field but fetchedAt; the second run issues the requests of the first.   *)
(***************************************************************************)
C16_Idempotent ==
  /\ replay # None => Len(answers) <= Len(replay[1])
  /\ (replay # None /\ pc = "exited" /\ writeFails = 0) =>
       /\ answers = replay[1]
       /\ Len(written) = 2
       /\ DOMAIN written[1] = DOMAIN written[2]
       /\ SansTime(written[1]) = SansTime(written[2])
       /\ files.payload = Some(written[2])

\* both runs found the photo of an activity of the second page, the first
\* run rotated the refresh token, and the timestamps differ
C16_Witness ==
  /\ replay # None
  /\ pc = "exited"
  /\ Len(written) = 2
  /\ IsSuccessPayload(written[1])
  /\ written[1].photoUrl # None
  /\ written[1].fetchedAt # written[2].fetchedAt
  /\ found # None
  /\ found[1].activity.id > PER_PAGE
  /\ files.rotated = Some("rt1")

(***************************************************************************)
(* The live handler (src/api/strava-latest.ts): GET exchanges the token,   *)
(* asks for the ten newest activities, picks one, asks for its photos and  *)
(* resolves with a Response.  Here a GET is handled once a batch run has   *)
(* written its payload, against the same feed.                             *)
(***************************************************************************)
LivePerPage == 10

\* messages of the errors the handler catches
LiveActivitiesFetchFailed == "Activities fetch failed"
FindNotAFunction == "activities.find is not a function"
NullBodyStatus == "Response constructor: Invalid response status code 204"

NoHeaders == [contentType |-> None, cacheControl |-> None]
JsonHeaders == [contentType |-> Some("application/json"), cacheControl |-> None]
CachedJsonHeaders ==
  [contentType |-> Some("application/json"),
   cacheControl |-> Some("public, max-age=120")]

\* the body {} of line 50
EmptyObject == [k \in {} |-> None]

\* what no step of the handler touches
liveFrame == <<env, feed, page, i, err, exitCode, files, written, writeFails,
               exchange, answers, replay, arg, result, cli, store, minted>>

\* the handler resolves
Respond(status, body, headers) ==
  /\ response' = Some([status |-> status, body |-> body, headers |-> headers])
  /\ pc' = "live:done"

\* the catch of line 111
Respond500(message) == Respond(500, Some([error |-> message]), JsonHeaders)

\* a GET arrives
LiveRequest ==
  /\ pc = "exited"
  /\ Len(written) = 1
  /\ writeFails = 0
  /\ response = None
  /\ pc' = "live:token"
  /\ requests' = <<>>
  /\ access' = None
  /\ found' = None
  /\ response' = response
  /\ UNCHANGED liveFrame

\* lines 5-22 and 35
getAccessToken ==
  /\ pc = "live:token"
  /\ \E res \in TokenResponses :
       /\ requests' = Append(requests, Req("token", 0, 0, env.STRAVA_REFRESH_TOKEN, res.outcome))
       /\ IF res.outcome = "reject"
            THEN Respond500(FetchFailed) /\ access' = access
          ELSE IF res.outcome = "notok"
            THEN Respond500(TokenRefreshFailed(res.text)) /\ access' = access
          ELSE /\ access' = Some(res.json[1].access_token)
               /\ pc' = "live:feed"
               /\ response' = response
  /\ found' = found
  /\ UNCHANGED liveFrame

\* lines 45-47: the first activity with a positive photo count, else the first
Picked(activities) ==
  LET counted == {k \in 1..Len(activities) : Nullish(activities[k].total_photo_count, 0) > 0}
  IN  IF counted # {}
        THEN Some(activities[CHOOSE k \in counted : \A l \in counted : k <= l])
      ELSE IF Len(activities) > 0 THEN Some(activities[1])
      ELSE None

\* lines 38-51.  new Response(body, {status: 204}) with a body that is not
\* null throws a TypeError where the constructor follows the Fetch standard,
\* which the catch turns into a 500; a constructor that does not check
\* yields a 204 response with the body {}
LiveFetchActivities ==
  /\ pc = "live:feed"
  /\ \E res \in FeedResponses(LivePerPage, 1) :
       /\ requests' = Append(requests, Req("activities", 1, LivePerPage, access, FeedAnswer(res)))
       /\ IF res.outcome = "reject"
            THEN Respond500(FetchFailed) /\ found' = found
          ELSE IF res.outcome = "notok"
            THEN Respond500(LiveActivitiesFetchFailed) /\ found' = found
          ELSE IF ~res.json[1].isArray
            THEN Respond500(FindNotAFunction) /\ found' = found
          ELSE LET picked == Picked(res.json[1].items)
               IN  IF picked = None
                     THEN /\ \/ Respond500(NullBodyStatus)
                             \/ Respond(204, Some(EmptyObject), NoHeaders)
                          /\ found' = found
                     ELSE /\ found' = picked
                          /\ pc' = "live:photo"
                          /\ response' = response
  /\ access' = access
  /\ UNCHANGED liveFrame

\* lines 64-69
LivePhotoUrl(p) ==
  IF p = None THEN None
  ELSE LET u == IF p[1].urls # None THEN p[1].urls[1] ELSE NoUrls
       IN  Or(u["1200"], Or(u["1000"], Or(u["2048"], Or(p[1].url, None))))

\* lines 77-94
LiveStats(picked) ==
  LET distance == Nullish(picked.distance, 0)
      durationSec == IF picked.moving_time # None THEN picked.moving_time[1]
                     ELSE Nullish(picked.elapsed_time, 0)
      isRun == picked.type \in {Some("Run"), Some("TrailRun")}
  IN  IF isRun /\ distance > 0
        THEN RunStats(distance, durationSec)
        ELSE [isRun |-> FALSE, duration |-> hms(durationSec)]

\* lines 54-110: the photo request, whose failure is ignored, the stats and
\* the response
LiveFetchPhotos ==
  /\ pc = "live:photo"
  /\ LET picked == found[1]
         res == PhotosOf(picked.id)
         photoUrl == IF res.outcome = "ok" /\ Len(res.json[1]) > 0
                       THEN LivePhotoUrl(Some(res.json[1][1]))
                       ELSE None
     IN  /\ requests' = Append(requests, Req("photos", picked.id, 1200, access, res.outcome))
         /\ Respond(200,
                    Some([photoUrl |-> photoUrl,
                          stats |-> LiveStats(picked),
                          activityUrl |-> activityUrl(picked)]),
                    CachedJsonHeaders)
  /\ UNCHANGED <<access, found>>
  /\ UNCHANGED liveFrame

LiveNext ==
  \/ Next
  \/ LiveRequest
  \/ getAccessToken
  \/ LiveFetchActivities
  \/ LiveFetchPhotos

\* the feeds of the handler's runs: those of at most two batch pages
LiveInit ==
  /\ Init
  /\ FeedLen <= 2 * PER_PAGE

SpecLive == LiveInit /\ [][LiveNext]_vars

\* the token exchange or the feed request of the handler failed: transport
\* failure, non-success status, or a body that is no list
LiveFailed ==
  \E j \in 1..Len(requests) :
    /\ requests[j].op \in {"token", "activities"}
    /\ requests[j].answer \in {"notok", "reject", "malformed"}

(***************************************************************************)
(* C17.  The handler always resolves, with exactly one of: status 200 and  *)
(* the body {photoUrl, stats, activityUrl} when the feed has an activity;  *)
(* status 204 and no body when the feed has none; status 500 and the body  *)
(* {error} when the token exchange or the feed request failed.             *)
(***************************************************************************)
C17_ThreeAnswers ==
  /\ pc \in {"live:token", "live:feed", "live:photo"} => ENABLED LiveNext
  /\ pc = "live:done" =>
       /\ response # None
       /\ LET r == response[1]
          IN  \/ /\ r.status = 200
                 /\ r.body # None
                 /\ DOMAIN r.body[1] = {"photoUrl", "stats", "activityUrl"}
                 /\ FeedLen > 0
                 /\ ~LiveFailed
              \/ /\ r.status = 204
                 /\ r.body = None
                 /\ FeedLen = 0
                 /\ ~LiveFailed
              \/ /\ r.status = 500
                 /\ r.body # None
                 /\ DOMAIN r.body[1] = {"error"}
                 /\ LiveFailed

(***************************************************************************)
(* C18.  When the batch run wrote a success payload, every one of its      *)
(* requests answered, and the handler answers 200 for the same feed, the   *)
(* handler's activityUrl, photoUrl and stats are those of the payload.     *)
(***************************************************************************)
C18_LiveMirrorsBatch ==
  ( /\ pc = "live:done"
    /\ response[1].status = 200
    /\ IsSuccessPayload(written[1])
    /\ \A j \in 2..Len(answers) : answers[j].answer = "ok" ) =>
      LET body == response[1].body[1]
      IN  /\ body.activityUrl = written[1].activityUrl
          /\ body.photoUrl = written[1].photoUrl
          /\ body.stats = written[1].stats

(***************************************************************************)
(* The secret-rotation CLI (scripts/update-gh-secret.mjs): argument and    *)
(* environment checks, the read of the rotation file, the fetch of the     *)
(* repository's public key, and the PUT of the sealed secret.              *)
(***************************************************************************)
\* an argument or environment value: unset, empty, or set
CliField(v) == {None, Some(""), Some(v)}

\* process.argv[2] and process.env
Clis ==
  [secretName : CliField("STRAVA_REFRESH_TOKEN"),
   GITHUB_REPOSITORY : CliField("owner/repo"),
   GITHUB_TOKEN : CliField("ghs_1")]

\* .data/rotated_refresh_token.txt: absent, or one of these contents
RotationFiles == {None, Some("rt1"), Some(" rt2\n"), Some("")}

Whitespace == {" ", "\n"}

\* String.prototype.trim
RECURSIVE trim(_)
trim(str) ==
  IF Len(str) = 0 THEN str
  ELSE IF SubSeq(str, 1, 1) \in Whitespace THEN trim(SubSeq(str, 2, Len(str)))
  ELSE IF SubSeq(str, Len(str), Len(str)) \in Whitespace
    THEN trim(SubSeq(str, 1, Len(str) - 1))
  ELSE str

\* answers of GET .../actions/secrets/public-key: the key, a body without
\* one, a non-success status, a transport failure
PublicKeyResponses ==
  {Ok([key_id |-> Some("k1"), key |-> Some("pub1")]),
   Ok([key_id |-> None, key |-> None]),
   NotOk, Reject}

\* answers of PUT .../actions/secrets/{name}
PutResponses == {Ok([updated |-> TRUE]), NotOk, Reject}

\* sodium.seal: a box that the holder of the key's private half opens
seal(message, key) == [box |-> message, key |-> key]

\* an entry of the store's request log
StoreReq(op, name, body, answer) ==
  [op |-> op, repo |-> cli[1].GITHUB_REPOSITORY, auth |-> cli[1].GITHUB_TOKEN,
   name |-> name, body |-> body, answer |-> answer]

CliInit ==
  /\ cli \in {Some(c) : c \in Clis}
  /\ files \in [payload : {None}, rotated : RotationFiles]
  /\ store = NoStore
  /\ minted = <<>>
  /\ pc = "cli:start"
  /\ exitCode = None
  /\ env = Env(Some("cid"), Some("sec"), Some("rt0"), None)
  /\ feed = [pad |-> 0, acts |-> <<>>]
  /\ access = None
  /\ page = 1
  /\ i = 0
  /\ found = None
  /\ err = None
  /\ written = <<>>
  /\ writeFails = 0
  /\ requests = <<>>
  /\ exchange = None
  /\ answers = <<>>
  /\ replay = None
  /\ arg = None
  /\ result = None
  /\ response = None

\* what no step of the CLI touches
cliFrame == <<env, feed, access, page, i, found, err, files, written, writeFails,
              requests, exchange, answers, replay, arg, response, cli, minted>>

\* process.exit(code), or the end of the module
Exit(code) ==
  /\ pc' = "exited"
  /\ exitCode' = Some(code)

\* mutant: the rotation file is read before argument and environment are
\* checked
CliStartFileFirst ==
  /\ pc = "cli:start"
  /\ IF files.rotated = None
       THEN Exit(0) /\ result' = result
     ELSE IF ~Truthy(cli[1].secretName)
       THEN Exit(1) /\ result' = result
     ELSE IF ~Truthy(cli[1].GITHUB_REPOSITORY) \/ ~Truthy(cli[1].GITHUB_TOKEN)
       THEN Exit(1) /\ result' = result
     ELSE /\ result' = Some(trim(files.rotated[1]))
          /\ pc' = "cli:public-key"
          /\ exitCode' = exitCode
  /\ store' = store
  /\ UNCHANGED cliFrame

\* lines 7-27; `result` holds newValue
CliStart ==
  /\ pc = "cli:start"
  /\ IF ~Truthy(cli[1].secretName)
       THEN Exit(1) /\ result' = result
     ELSE IF ~Truthy(cli[1].GITHUB_REPOSITORY) \/ ~Truthy(cli[1].GITHUB_TOKEN)
       THEN Exit(1) /\ result' = result
     ELSE IF files.rotated = None
       THEN Exit(0) /\ result' = result
     ELSE /\ result' = Some(trim(files.rotated[1]))
          /\ pc' = "cli:public-key"
          /\ exitCode' = exitCode
  /\ store' = store
  /\ UNCHANGED cliFrame

\* lines 30-44: a rejected fetch and a body without a key end the process
\* with an uncaught exception, status 1
CliPublicKey ==
  /\ pc = "cli:public-key"
  /\ \E res \in PublicKeyResponses :
       /\ store' = [store EXCEPT !.log = Append(@, StoreReq("public-key", None, None, res.outcome))]
       /\ IF res.outcome # "ok" \/ res.json[1].key = None
            THEN Exit(1) /\ found' = found
            ELSE /\ found' = Some([key_id |-> res.json[1].key_id[1],
                                   encrypted_value |-> seal(result[1], res.json[1].key[1])])
                 /\ pc' = "cli:put"
                 /\ exitCode' = exitCode
  /\ UNCHANGED <<env, feed, access, page, i, err, files, written, writeFails,
                 requests, exchange, answers, replay, arg, result, response, cli,
                 minted>>

\* lines 47-60: the store that accepts the PUT opens the box and keeps the
\* secret
CliPut ==
  /\ pc = "cli:put"
  /\ \E res \in PutResponses :
       /\ store' =
            [log |-> Append(store.log,
                            StoreReq("put", cli[1].secretName, Some(found[1]), res.outcome)),
             secrets |-> IF res.outcome = "ok"
                           THEN Append(store.secrets,
                                       [name |-> cli[1].secretName[1],
                                        value |-> found[1].encrypted_value.box])
                           ELSE store.secrets]
       /\ IF res.outcome = "ok" THEN Exit(0) ELSE Exit(1)
  /\ UNCHANGED <<env, feed, access, page, i, found, err, files, written, writeFails,
                 requests, exchange, answers, replay, arg, result, response, cli,
                 minted>>

CliNext ==
  \/ CliStart
  \/ CliPublicKey
  \/ CliPut

SpecCli == CliInit /\ [][CliNext]_vars

\* the argument and both environment values are present
CliConfigured ==
  /\ cli[1].secretName \notin {None, Some("")}
  /\ cli[1].GITHUB_REPOSITORY \notin {None, Some("")}
  /\ cli[1].GITHUB_TOKEN \notin {None, Some("")}

\* the store did not accept the last request
StoreRejected ==
  /\ store.log # <<>>
  /\ store.log[Len(store.log)].answer \in {"notok", "reject"}

(***************************************************************************)
(* C19, as the claim states it.  Whenever the rotation file does not       *)
(* exist the CLI exits with status 0 and has sent no request; it exits     *)
(* with a non-zero status when GITHUB_REPOSITORY or GITHUB_TOKEN is        *)
(* missing or the store rejects the public-key fetch or the secret write.  *)
(***************************************************************************)
C19_Original ==
  pc = "exited" =>
    /\ files.rotated = None => exitCode = Some(0) /\ store.log = <<>>
    /\ (cli[1].GITHUB_REPOSITORY \in {None, Some("")}
          \/ cli[1].GITHUB_TOKEN \in {None, Some("")}) => exitCode # Some(0)
    /\ StoreRejected => exitCode # Some(0)

(***************************************************************************)
(* C19, amended.  The argument and the environment are checked before the  *)
(* file is read: a missing secret name, GITHUB_REPOSITORY or GITHUB_TOKEN  *)
(* ends the CLI with status 1 whether the rotation file exists or not;     *)
(* with all three present and no rotation file it exits with status 0.     *)
(* No request is sent in either case.  It exits with status 1 when the     *)
(* store rejects the public-key fetch or the secret write, and then no     *)
(* secret has been stored; an exit with status 0 after a request has       *)
(* stored the trimmed content of the file under the given name.            *)
(***************************************************************************)
C19_RotationCli ==
  /\ pc \in {"cli:start", "cli:public-key", "cli:put"} => ENABLED CliNext
  /\ files.rotated = None => store.log = <<>>
  /\ ~CliConfigured => store.log = <<>>
  /\ pc = "exited" =>
       /\ exitCode \in {Some(0), Some(1)}
       /\ ~CliConfigured => exitCode = Some(1)
       /\ (CliConfigured /\ files.rotated = None) => exitCode = Some(0)
       /\ StoreRejected => exitCode = Some(1) /\ store.secrets = <<>>
       /\ (exitCode = Some(0) /\ store.log # <<>>) =>
            /\ Len(store.log) = 2
            /\ store.log[1].op = "public-key" /\ store.log[2].op = "put"
            /\ store.secrets =
                 <<[name |-> "STRAVA_REFRESH_TOKEN",
                    value |-> IF files.rotated = Some("rt1") THEN "rt1"
                              ELSE IF files.rotated = Some("") THEN "" ELSE "rt2"]>>

\* the CLI is configured, finds no rotation file and exits cleanly
C19_Witness ==
  /\ pc = "exited"
  /\ CliConfigured
  /\ files.rotated = None
  /\ exitCode = Some(0)
  /\ store.log = <<>>

(***************************************************************************)
(* C20.  A write of the payload that fails is retried once: a run in which *)
(* one write failed has persisted its payload by the retry and does not    *)
(* report the write failure in its place; a run ends with a non-zero       *)
(* status exactly when the retry failed as well, that is after two failed  *)
(* writes; no run makes a third attempt.                                   *)
(***************************************************************************)
C20_RetryThenFatal ==
  /\ writeFails <= 2
  /\ (pc = "exited" /\ PassedStartup) =>
       /\ writeFails = 0 => exitCode = Some(0) /\ Len(written) = 1
       /\ writeFails = 1 =>
            /\ exitCode = Some(0)
            /\ Len(written) = 1
            /\ IsErrorPayload(written[1]) => written[1].error # WriteFailed
       /\ writeFails = 2 => exitCode = Some(1)
       /\ exitCode = Some(1) => writeFails = 2

(***************************************************************************)
(* Vocabulary of the tier claims, stated on the upstream answers.          *)
(***************************************************************************)
\* the most preferred url of a photo record, None when it has none
FirstUrl(p) ==
  LET pref == Preference(p)
      present == {k \in 1..4 : IsUrl(pref[k])}
  IN  IF present = {} THEN None
      ELSE pref[CHOOSE k \in present : \A l \in present : k <= l]

\* the url of the first entry of activity k's gallery; None when the request
\* fails, the list is empty or the first entry has no usable url
GalleryUrl(k) ==
  LET res == Entry(k).photos
  IN  IF res.outcome = "ok" /\ res.json[1] # <<>>
        THEN FirstUrl(Some(res.json[1][1]))
        ELSE None

\* the url of the cover photo of activity k's detail record
CoverUrl(k) ==
  LET res == Entry(k).detail
  IN  IF res.outcome = "ok" /\ res.json[1].photos # None
        THEN FirstUrl(res.json[1].photos[1].primary)
        ELSE None

\* request j is the last one and discovery has returned activity n with url
IsHit(j, n, url) ==
  /\ j = Len(requests)
  /\ pc \in {"compose", "catch", "exited"}
  /\ found # None
  /\ found[1].activity.id = n
  /\ Some(found[1].photoUrl) = url

(***************************************************************************)
(* C21.  The detail request of an activity directly follows the gallery    *)
(* request of the same activity, and only when the gallery gave no url     *)
(* (request failed, empty list, or a first entry without a usable url,     *)
(* whatever the later entries hold).  A gallery that gives a url is the    *)
(* hit, and no detail request is made; else the detail request is next,    *)
(* and a cover photo with a url is the hit.  Discovery goes on to another  *)
(* activity, page or the fallback only after both tiers gave no url.       *)
(***************************************************************************)
C21_TierOrder ==
  \A j \in 1..Len(requests) :
    LET r == requests[j]
        nxt == IF j < Len(requests) THEN requests[j + 1] ELSE Pending
    IN  /\ r.op = "detail" =>
             /\ j > 1
             /\ requests[j - 1].op = "photos"
             /\ requests[j - 1].n = r.n
             /\ GalleryUrl(r.n) = None
        /\ r.op = "photos" =>
             IF GalleryUrl(r.n) # None
               THEN IsHit(j, r.n, GalleryUrl(r.n))
               ELSE nxt.op = "detail" /\ nxt.n = r.n
        /\ r.op = "detail" =>
             IF CoverUrl(r.n) # None
               THEN IsHit(j, r.n, CoverUrl(r.n))
               ELSE /\ ~(nxt.op \in {"photos", "detail"} /\ nxt.n = r.n)
                    /\ nxt.op \in {"photos", "activities", "newest"}

\* an empty gallery led to the cover photo of the same activity, behind an
\* activity whose first gallery entry was blank and whose detail had no photo
C21_Witness ==
  /\ Len(feed.acts) = 2
  /\ feed.acts[1] = Hollow
  /\ feed.acts[2] = EmptyGallery
  /\ found # None
  /\ found[1].activity.id = feed.pad + 2
  /\ found[1].photoUrl = "https://cdn/cover-1000.jpg"
  /\ Len(requests) >= 5
  /\ requests[Len(requests)].op = "detail"

(***************************************************************************)
(* C22.  The requests of a run form one sequence.  The token exchange is   *)
(* its first entry and the only exchange, and a second request exists only *)
(* when the exchange succeeded.  Page n+1 is requested only after page n   *)
(* was answered with a non-empty list and every activity of page n that    *)
(* claims a photo had its gallery and its detail request, both without a   *)
(* url.  A page answered with an empty list is followed by the fallback    *)
(* request, never by a page request.  Once discovery has a hit, the        *)
(* request that gave it stays the last one, up to and after the write.     *)
(***************************************************************************)
\* the positions of the feed that lie on page p
OnPage(p) ==
  ((p - 1) * PER_PAGE + 1)..(IF p * PER_PAGE < FeedLen THEN p * PER_PAGE ELSE FeedLen)

\* request j asked for the given endpoint and activity and came before `before`
Asked(op, n, before) ==
  \E j \in 1..(before - 1) : requests[j].op = op /\ requests[j].n = n

C22_Sequential ==
  /\ pc \notin {"start", "token"} /\ PassedStartup => requests # <<>>
  /\ \A j \in 1..Len(requests) :
       LET r == requests[j]
           nxt == IF j < Len(requests) THEN requests[j + 1] ELSE Pending
       IN  /\ (r.op = "token") <=> (j = 1)
           /\ j >= 2 => requests[1].answer = "ok"
           \* (the history only grows: each page request is examined in the
           \* state in which it is the newest request)
           /\ (r.op = "activities" /\ r.n >= 2 /\ j = Len(requests)) =>
                /\ requests[j - 1].op \in {"activities", "detail"}
                /\ \E l \in 1..(j - 1) :
                     /\ requests[l].op = "activities"
                     /\ requests[l].n = r.n - 1
                     /\ requests[l].answer = "ok"
                /\ OnPage(r.n - 1) # {}
                /\ \A k \in OnPage(r.n - 1) :
                     CountsPhotos(k) =>
                       /\ Asked("photos", k, j)
                       /\ Asked("detail", k, j)
                       /\ GalleryUrl(k) = None
                       /\ CoverUrl(k) = None
           /\ (r.op = "activities" /\ r.answer = "ok" /\ OnPage(r.n) = {}) =>
                nxt.op = "newest"
           /\ r.op = "newest" => j = Len(requests)
  /\ found # None =>
       /\ requests[Len(requests)].op \in {"photos", "detail"}
       /\ requests[Len(requests)].n = found[1].activity.id
       /\ pc \in {"compose", "catch", "exited"}
       /\ \A j \in 1..(Len(requests) - 1) :
            requests[j].op \in {"photos", "detail"} =>
              requests[j].n # found[1].activity.id \/ requests[j].op = "photos"

\* the payload is written after a hit on page 2, behind a candidate at the
\* end of page 1 whose two tiers gave nothing
C22_Witness ==
  /\ pc = "exited"
  /\ Len(written) = 1
  /\ feed.pad = PER_PAGE - 1
  /\ found # None
  /\ found[1].activity.id = PER_PAGE + 1
  /\ Len(requests) >= 6
  /\ requests[3].op = "photos" /\ requests[3].n = PER_PAGE
  /\ requests[4].op = "detail" /\ requests[4].n = PER_PAGE
  /\ requests[5].op = "activities" /\ requests[5].n = 2

(***************************************************************************)
(* C23.  In every label of buildStats the seconds are two digits between   *)
(* 00 and 59, and the minutes of an H:MM:SS duration are between 00 and    *)
(* 59: a pace label never shows 60 seconds.                                *)
(***************************************************************************)
\* "00", "01", ..., "59"
Sexagesimal == {TwoDigits(n) : n \in 0..59}

\* the two characters of a label that end `back` characters before its end
FieldAt(label, back) == SubSeq(label, Len(label) - back - 1, Len(label) - back)

\* M:SS or H:MM:SS
WellFormedClock(label) ==
  /\ Len(label) >= 4
  /\ FieldAt(label, 0) \in Sexagesimal
  /\ SubSeq(label, Len(label) - 2, Len(label) - 2) = ":"
  /\ Len(label) >= 7 =>
       /\ FieldAt(label, 3) \in Sexagesimal
       /\ SubSeq(label, Len(label) - 5, Len(label) - 5) = ":"

\* M:SS/km
WellFormedPace(label) ==
  /\ Len(label) >= 7
  /\ SubSeq(label, Len(label) - 2, Len(label)) = "/km"
  /\ FieldAt(label, 3) \in Sexagesimal
  /\ SubSeq(label, Len(label) - 5, Len(label) - 5) = ":"

C23_SecondsInRange ==
  Returned("buildStats") =>
    /\ WellFormedClock(result[1].duration)
    /\ "pace" \in DOMAIN result[1] => WellFormedPace(result[1].pace)

(***************************************************************************)
(* The scheduled job: the batch script, then the secret-rotation CLI for   *)
(* STRAVA_REFRESH_TOKEN, and the next job's script is configured with the  *)
(* secret as the store then holds it.  The rotation file outlives the      *)
(* job.  At the start the store holds the configured refresh token.        *)
(***************************************************************************)
MaxRuns == 2

\* the invocation of the usage line, with the environment it requires
RotateCli ==
  [secretName |-> Some("STRAVA_REFRESH_TOKEN"),
   GITHUB_REPOSITORY |-> Some("owner/repo"),
   GITHUB_TOKEN |-> Some("ghs_1")]

\* the store's value of STRAVA_REFRESH_TOKEN
Stored == store.secrets[Len(store.secrets)].value

RotateInit ==
  /\ env \in {e \in Envs : /\ Truthy(e.STRAVA_CLIENT_ID)
                           /\ Truthy(e.STRAVA_CLIENT_SECRET)
                           /\ Truthy(e.STRAVA_REFRESH_TOKEN)}
  /\ feed \in {f \in Feeds : f.pad = 0 /\ Len(f.acts) <= 1}
  /\ store = [secrets |-> <<[name |-> "STRAVA_REFRESH_TOKEN",
                             value |-> env.STRAVA_REFRESH_TOKEN[1]]>>,
              log |-> <<>>]
  /\ pc = "start"
  /\ access = None
  /\ page = 1
  /\ i = 0
  /\ found = None
  /\ err = None
  /\ exitCode = None
  /\ files = [payload |-> None, rotated |-> None]
  /\ written = <<>>
  /\ writeFails = 0
  /\ requests = <<>>
  /\ exchange = None
  /\ answers = <<>>
  /\ replay = None
  /\ arg = None
  /\ result = None
  /\ response = None
  /\ cli = None
  /\ minted = <<>>

\* the script has exited: the CLI is started
RunCli ==
  /\ pc = "exited"
  /\ cli = None
  /\ cli' = Some(RotateCli)
  /\ pc' = "cli:start"
  /\ exitCode' = None
  /\ found' = None
  /\ UNCHANGED <<env, feed, access, page, i, err, files, written, writeFails,
                 requests, exchange, answers, replay, arg, result, response,
                 store, minted>>

\* the CLI has succeeded: the script is started again, a new process whose
\* STRAVA_REFRESH_TOKEN is the secret
NextRun ==
  /\ pc = "exited"
  /\ cli # None
  /\ exitCode = Some(0)
  /\ Len(minted) < MaxRuns
  /\ env' = [env EXCEPT !.STRAVA_REFRESH_TOKEN = Some(Stored)]
  /\ cli' = None
  /\ pc' = "start"
  /\ access' = None
  /\ page' = 1
  /\ i' = 0
  /\ found' = None
  /\ err' = None
  /\ exitCode' = None
  /\ requests' = <<>>
  /\ exchange' = None
  /\ answers' = <<>>
  /\ result' = None
  /\ written' = <<>>
  /\ writeFails' = 0
  /\ UNCHANGED <<feed, files, replay, arg, response, store, minted>>

RotateNext ==
  \/ Next
  \/ RunCli
  \/ CliNext
  \/ NextRun

SpecRotate == RotateInit /\ [][RotateNext]_vars

\* the refresh token the upstream service issued last, None before the first
LastIssued ==
  LET some == {k \in 1..Len(minted) : minted[k] # None}
  IN  IF some = {} THEN None
      ELSE minted[CHOOSE k \in some : \A l \in some : l <= k]

\* the job is over: the script has run and the CLI after it has succeeded
JobDone ==
  /\ pc = "exited"
  /\ cli # None
  /\ exitCode = Some(0)

(***************************************************************************)
(* C24.  Whenever a job is over, the store holds the refresh token the     *)
(* upstream service issued last, whatever payload the script ended with.   *)
(* The rotation file, once written, is never deleted, and it holds the     *)
(* token issued last: a run that sees no rotation leaves it as it is.      *)
(***************************************************************************)
C24_StoredIsLatest ==
  /\ (JobDone /\ LastIssued # None) => Some(Stored) = LastIssued
  /\ files.rotated # None => files.rotated = LastIssued
  /\ files.rotated = None <=>
       \A k \in 1..Len(minted) :
         minted[k] \in {None, Some(store.secrets[1].value)}

\* the second job is over: its run was configured with the token that the
\* first run was issued and wrote to the file, it saw no rotation and ended
\* with an error payload, and the CLI has stored the token of the file again
C24_Witness ==
  /\ JobDone
  /\ minted = <<Some("rt1"), Some("rt1")>>
  /\ env.STRAVA_REFRESH_TOKEN = Some("rt1")
  /\ files.rotated = Some("rt1")
  /\ Len(store.secrets) = 3
  /\ Stored = "rt1"
  /\ store.secrets[1].value = "rt0"
  /\ Len(written) = 1
  /\ IsErrorPayload(written[1])

====
